---- MODULE Spec2Model ----
(***************************************************************************)
(* Model of homework.py: the fitness-tracker calculation hierarchy         *)
(* (Training, Running, SportsWalking, Swimming), the InfoMessage           *)
(* rendering, the read_package dispatcher and the driver loop.             *)
(*                                                                         *)
(* Python numbers are modelled as what they are: an int is an exact        *)
(* integer, a float is an IEEE-754 binary64 value, and every float         *)
(* operation rounds its exact result to 53 significant bits, ties to       *)
(* even.  Mantissas do not fit the integers of the model checker, so they  *)
(* are kept as arbitrary-size naturals (little-endian sequences of 15-bit  *)
(* limbs).  Exponents are unbounded: within the bounds of the model no     *)
(* operation overflows or underflows the binary64 exponent range.          *)
(***************************************************************************)
EXTENDS Integers, Sequences, FiniteSets, TLC

(***************************************************************************)
(* Arbitrary-size naturals: <<>> is 0, the last limb is never 0.           *)
(***************************************************************************)
LimbBase == 2^15

RECURSIVE BNorm(_)
BNorm(a) == IF a = <<>> THEN <<>>
            ELSE IF a[Len(a)] = 0 THEN BNorm(SubSeq(a, 1, Len(a) - 1))
            ELSE a

RECURSIVE BFromInt(_)
BFromInt(n) == IF n = 0 THEN <<>>
               ELSE <<n % LimbBase>> \o BFromInt(n \div LimbBase)

RECURSIVE BAddC(_, _, _)
BAddC(a, b, c) ==
    IF a = <<>> /\ b = <<>> THEN (IF c = 0 THEN <<>> ELSE <<c>>)
    ELSE LET x == IF a = <<>> THEN 0 ELSE a[1]
             y == IF b = <<>> THEN 0 ELSE b[1]
             t == x + y + c
         IN  <<t % LimbBase>> \o
             BAddC(IF a = <<>> THEN <<>> ELSE Tail(a),
                   IF b = <<>> THEN <<>> ELSE Tail(b), t \div LimbBase)

BAdd(a, b) == BAddC(a, b, 0)

\* a - b for a >= b, before normalisation
RECURSIVE BSubC(_, _, _)
BSubC(a, b, c) ==
    IF a = <<>> THEN <<>>
    ELSE LET y == IF b = <<>> THEN 0 ELSE b[1]
             t == a[1] - y - c
         IN  <<t % LimbBase>> \o
             BSubC(Tail(a), IF b = <<>> THEN <<>> ELSE Tail(b),
                   IF t < 0 THEN 1 ELSE 0)

BSub(a, b) == BNorm(BSubC(a, b, 0))

\* -1, 0, 1 as a < b, a = b, a > b
RECURSIVE BCmpAt(_, _, _)
BCmpAt(a, b, i) ==
    IF i = 0 THEN 0
    ELSE IF a[i] < b[i] THEN -1
    ELSE IF a[i] > b[i] THEN 1
    ELSE BCmpAt(a, b, i - 1)

BCmp(a, b) == IF Len(a) < Len(b) THEN -1
              ELSE IF Len(a) > Len(b) THEN 1
              ELSE BCmpAt(a, b, Len(a))

\* a * k + c for 0 <= k, c < LimbBase
RECURSIVE BMulSmallC(_, _, _)
BMulSmallC(a, k, c) ==
    IF a = <<>> THEN (IF c = 0 THEN <<>> ELSE <<c>>)
    ELSE LET t == a[1] * k + c
         IN  <<t % LimbBase>> \o BMulSmallC(Tail(a), k, t \div LimbBase)

BMulSmall(a, k) == IF k = 0 THEN <<>> ELSE BMulSmallC(a, k, 0)

RECURSIVE BMul(_, _)
BMul(a, b) ==
    IF a = <<>> \/ b = <<>> THEN <<>>
    ELSE LET rest == BMul(a, Tail(b))
         IN  BAdd(BMulSmall(a, b[1]),
                  IF rest = <<>> THEN <<>> ELSE <<0>> \o rest)

\* <<quotient, remainder>> of a by 0 < k < LimbBase, from the top limb down
RECURSIVE BDivSmallAt(_, _, _, _, _)
BDivSmallAt(a, k, i, q, r) ==
    IF i = 0 THEN <<BNorm(q), r>>
    ELSE LET t == r * LimbBase + a[i]
         IN  BDivSmallAt(a, k, i - 1, <<t \div k>> \o q, t % k)

BDivSmall(a, k) == BDivSmallAt(a, k, Len(a), <<>>, 0)

RECURSIVE BitLenSmall(_)
BitLenSmall(n) == IF n = 0 THEN 0 ELSE 1 + BitLenSmall(n \div 2)

BitLen(a) == IF a = <<>> THEN 0
             ELSE 15 * (Len(a) - 1) + BitLenSmall(a[Len(a)])

Zeros(n) == [i \in 1..n |-> 0]

\* a * 2^n
BShl(a, n) == IF a = <<>> THEN <<>>
              ELSE Zeros(n \div 15) \o BMulSmall(a, 2^(n % 15))

\* floor(a / 2^n)
BShr(a, n) == IF n \div 15 >= Len(a) THEN <<>>
              ELSE BDivSmall(SubSeq(a, (n \div 15) + 1, Len(a)), 2^(n % 15))[1]

\* the quotient digit floor(r / b) from the estimate d >= floor(r / b)
RECURSIVE BDigitFix(_, _, _)
BDigitFix(r, b, d) == IF BCmp(BMulSmall(b, d), r) > 0
                      THEN BDigitFix(r, b, d - 1) ELSE d

\* long division by b of several limbs, its top limb at least LimbBase / 2,
\* from the top limb of a down: q the digits so far, r the remainder
RECURSIVE BDivLimbs(_, _, _, _, _)
BDivLimbs(a, b, i, q, r) ==
    IF i = 0 THEN <<BNorm(q), r>>
    ELSE LET n  == Len(b)
             r1 == BNorm(<<a[i]>> \o r)
             hi == IF Len(r1) > n THEN r1[n + 1] ELSE 0
             lo == IF Len(r1) >= n THEN r1[n] ELSE 0
             d0 == (hi * LimbBase + lo) \div b[n]
             d  == BDigitFix(r1, b, IF d0 >= LimbBase THEN LimbBase - 1 ELSE d0)
         IN  BDivLimbs(a, b, i - 1, <<d>> \o q, BSub(r1, BMulSmall(b, d)))

\* <<quotient, remainder * 2^sh>> to <<quotient, remainder>>
BUnshift(d, sh) == <<d[1], BShr(d[2], sh)>>

BDivNorm(a, b, sh) == BUnshift(BDivLimbs(a, b, Len(a), <<>>, <<>>), sh)

BSmallPair(d) == <<d[1], BFromInt(d[2])>>

\* <<quotient, remainder>> of a by b > 0
BDivMod(a, b) ==
    IF Len(b) = 1 THEN BSmallPair(BDivSmall(a, b[1]))
    ELSE BDivNorm(BShl(a, 15 - BitLenSmall(b[Len(b)])),
                  BShl(b, 15 - BitLenSmall(b[Len(b)])),
                  15 - BitLenSmall(b[Len(b)]))

(***************************************************************************)
(* Python floats.  [k |-> "float", s, m, e] is (-1)^s * m * 2^e with m odd *)
(* and below 2^53, or m = <<>> and e = 0 for a (signed) zero.              *)
(***************************************************************************)
RECURSIVE ZeroLimbs(_)
ZeroLimbs(a) == IF a[1] # 0 THEN 0 ELSE 1 + ZeroLimbs(Tail(a))

RECURSIVE ZeroBits(_)
ZeroBits(n) == IF n % 2 = 1 THEN 0 ELSE 1 + ZeroBits(n \div 2)

TrailingZeros(a) == LET z == ZeroLimbs(a) IN 15 * z + ZeroBits(a[z + 1])

CanonAt(s, m, e, t) == [k |-> "float", s |-> s, m |-> BShr(m, t), e |-> e + t]

Canon(s, m, e) ==
    IF m = <<>> THEN [k |-> "float", s |-> s, m |-> <<>>, e |-> 0]
    ELSE CanonAt(s, m, e, TrailingZeros(m))

\* q2 is the magnitude with one bit below the last place: the half
\* rounds up when something follows it (rest) or the result is odd
RoundHalf(q2, rest) ==
    IF q2[1] % 2 = 1 /\ (rest \/ (q2[1] \div 2) % 2 = 1)
    THEN BAdd(BShr(q2, 1), <<1>>)
    ELSE BShr(q2, 1)

FRoundAt(s, m, e, sticky, sh, q2) ==
    Canon(s, RoundHalf(q2, sticky \/ BShl(q2, sh - 1) # m), e + sh)

\* (-1)^s * (m + d) * 2^e, 0 <= d < 1 and d > 0 iff sticky, rounded to the
\* nearest binary64, ties to even; with sticky set m has more than 53 bits
FRound(s, m, e, sticky) ==
    IF BitLen(m) <= 53 THEN Canon(s, m, e)
    ELSE FRoundAt(s, m, e, sticky, BitLen(m) - 53,
                  BShr(m, BitLen(m) - 53 - 1))

FTowardAt(s, m, e, up, sh, q) ==
    Canon(s, IF up /\ BShl(q, sh) # m THEN BAdd(q, <<1>>) ELSE q, e + sh)

\* (-1)^s * m * 2^e rounded to a neighbouring binary64: toward zero, or
\* away from zero (up); the value itself when it is a binary64
FToward(s, m, e, up) ==
    IF BitLen(m) <= 53 THEN Canon(s, m, e)
    ELSE FTowardAt(s, m, e, up, BitLen(m) - 53, BShr(m, BitLen(m) - 53))

IntToFloat(n) == Canon(IF n < 0 THEN 1 ELSE 0,
                       BFromInt(IF n < 0 THEN -n ELSE n), 0)

FIsZero(a) == a.m = <<>>

FNeg(a) == [a EXCEPT !.s = 1 - a.s]

Min(i, j) == IF i <= j THEN i ELSE j

\* -1, 0, 1 as |a| < |b|, |a| = |b|, |a| > |b|
FMagCmp(a, b) ==
    IF FIsZero(a) THEN (IF FIsZero(b) THEN 0 ELSE -1)
    ELSE IF FIsZero(b) THEN 1
    ELSE LET e0 == Min(a.e, b.e)
         IN  BCmp(BShl(a.m, a.e - e0), BShl(b.m, b.e - e0))

\* -1, 0, 1 as a < b, a == b, a > b (0.0 == -0.0)
FCmp(a, b) ==
    IF FIsZero(a) /\ FIsZero(b) THEN 0
    ELSE IF a.s # b.s THEN
        (IF FIsZero(a) THEN (IF b.s = 1 THEN 1 ELSE -1)
         ELSE IF a.s = 1 THEN -1 ELSE 1)
    ELSE IF a.s = 0 THEN FMagCmp(a, b) ELSE FMagCmp(b, a)

\* x * 2^e0 and y * 2^e0 with signs sa and sb, neither zero
FAddAt(sa, x, sb, y, e0, c) ==
    IF sa = sb THEN FRound(sa, BAdd(x, y), e0, FALSE)
    ELSE IF c = 0 THEN Canon(0, <<>>, 0)
    ELSE FRound(IF c > 0 THEN sa ELSE sb,
                IF c > 0 THEN BSub(x, y) ELSE BSub(y, x), e0, FALSE)

FAddAligned(sa, x, sb, y, e0) == FAddAt(sa, x, sb, y, e0, BCmp(x, y))

FAdd(a, b) ==
    IF FIsZero(a) /\ FIsZero(b)
    THEN Canon(IF a.s = 1 /\ b.s = 1 THEN 1 ELSE 0, <<>>, 0)
    ELSE IF FIsZero(a) THEN b
    ELSE IF FIsZero(b) THEN a
    ELSE FAddAligned(a.s, BShl(a.m, a.e - Min(a.e, b.e)),
                     b.s, BShl(b.m, b.e - Min(a.e, b.e)), Min(a.e, b.e))

FSub(a, b) == FAdd(a, FNeg(b))

FMul(a, b) ==
    LET s == IF a.s = b.s THEN 0 ELSE 1
    IN  IF FIsZero(a) \/ FIsZero(b) THEN Canon(s, <<>>, 0)
        ELSE FRound(s, BMul(a.m, b.m), a.e + b.e, FALSE)

FDivAt(s, d, e) == FRound(s, d[1], e, d[2] # <<>>)

\* a / b for b # 0: the quotient to at least 55 bits, the remainder sticky
FDiv(a, b) ==
    IF FIsZero(a) THEN Canon(IF a.s = b.s THEN 0 ELSE 1, <<>>, 0)
    ELSE FDivAt(IF a.s = b.s THEN 0 ELSE 1,
                BDivMod(BShl(a.m, 55 + BitLen(b.m)), b.m),
                a.e - b.e - (55 + BitLen(b.m)))

FModAt(s, d, e0) == Canon(s, d[2], e0)

\* C fmod(a, b) for b # 0: exact, with the sign of a
FMod(a, b) ==
    IF FIsZero(a) THEN a
    ELSE FModAt(a.s, BDivMod(BShl(a.m, a.e - Min(a.e, b.e)),
                             BShl(b.m, b.e - Min(a.e, b.e))),
                Min(a.e, b.e))

FFloorAt(s, q) == Canon(s, IF s = 1 THEN BAdd(q, <<1>>) ELSE q, 0)

\* C floor(a)
FFloor(a) == IF a.e >= 0 THEN a ELSE FFloorAt(a.s, BShr(a.m, 0 - a.e))

FOne == IntToFloat(1)
FHalf == Canon(0, <<1>>, -1)

\* CPython float_floor_div / _float_div_mod for b # 0:
\*   mod = fmod(a, b); div = (a - mod) / b;
\*   if mod and (b < 0) != (mod < 0): div -= 1.0
\*   floordiv = floor(div); if div - floordiv > 0.5: floordiv += 1.0
\*   and for div == 0 a zero with the sign of a / b
FSnap(fl, frac) == IF FCmp(frac, FHalf) > 0 THEN FAdd(fl, FOne) ELSE fl

FSnapTo(div, fl) == FSnap(fl, FSub(div, fl))

FFloorDivOf(a, b, div) ==
    IF FIsZero(div) THEN Canon(IF a.s = b.s THEN 0 ELSE 1, <<>>, 0)
    ELSE FSnapTo(div, FFloor(div))

FFloorDivAdj(a, b, mod0, div0) ==
    FFloorDivOf(a, b, IF ~FIsZero(mod0) /\ ((b.s = 1) # (mod0.s = 1))
                      THEN FSub(div0, FOne) ELSE div0)

FFloorDivMod(a, b, mod0) == FFloorDivAdj(a, b, mod0, FDiv(FSub(a, mod0), b))

FFloorDiv(a, b) == FFloorDivMod(a, b, FMod(a, b))

\* decimal digits of a natural, most significant first, at least one
RECURSIVE BDigits(_)
BDigits(a) ==
    LET d == BDivSmall(a, 10)
        c == <<"0", "1", "2", "3", "4", "5", "6", "7", "8", "9">>[d[2] + 1]
    IN  IF d[1] = <<>> THEN <<c>> ELSE BDigits(d[1]) \o <<c>>

\* m * 2^e for e < 0 rounded to the nearest natural, ties to even
BRoundShr(m, sh, q2) == RoundHalf(q2, BShl(q2, sh - 1) # m)

\* mutant of BScaled: the digits beyond the third are cut off, not rounded
BScaled_truncated(m, e) == IF e >= 0 THEN BShl(m, e) ELSE BShr(m, 0 - e)

BScaled(m, e) == IF e >= 0 THEN BShl(m, e)
                 ELSE IF BShr(m, 0 - e - 1) = <<>> THEN <<>>
                 ELSE BRoundShr(m, 0 - e, BShr(m, 0 - e - 1))

\* |a| * 1000 rounded to the nearest natural, ties to even
FThousandths(a) == BScaled(BMulSmall(a.m, 1000), a.e)

Pad3(f) == SubSeq(f, 2, 4)

FormatParts(s, d) ==
    (IF s = 1 THEN <<"-">> ELSE <<>>) \o BDigits(d[1])
    \o <<".">> \o Pad3(BDigits(BFromInt(1000 + d[2])))

\* format(a, '.3f') as a sequence of characters
FormatF3(a) == FormatParts(a.s, BDivSmall(FThousandths(a), 1000))

(***************************************************************************)
(* Python values: ints, floats, None, and a raised exception travelling up *)
(* through the expression that raised it.                                  *)
(***************************************************************************)
None == [k |-> "None"]

PyInt(n) == [k |-> "int", v |-> n]

\* the float literal num/den (a decimal literal is read correctly rounded)
PyFloat(num, den) == FDiv(IntToFloat(num), IntToFloat(den))

Raise(exc, msg) == [k |-> "raise", exc |-> exc, msg |-> msg]

IsRaise(a) == a.k = "raise"

IsInt(a) == a.k = "int"

ToFloat(a) == IF IsInt(a) THEN IntToFloat(a.v) ELSE a

IsZero(a) == IF IsInt(a) THEN a.v = 0 ELSE FIsZero(a)

\* a * b
PyMul(a, b) ==
    IF IsRaise(a) THEN a ELSE IF IsRaise(b) THEN b
    ELSE IF IsInt(a) /\ IsInt(b) THEN PyInt(a.v * b.v)
    ELSE FMul(ToFloat(a), ToFloat(b))

\* a + b
PyAdd(a, b) ==
    IF IsRaise(a) THEN a ELSE IF IsRaise(b) THEN b
    ELSE IF IsInt(a) /\ IsInt(b) THEN PyInt(a.v + b.v)
    ELSE FAdd(ToFloat(a), ToFloat(b))

\* a - b
PySub(a, b) ==
    IF IsRaise(a) THEN a ELSE IF IsRaise(b) THEN b
    ELSE IF IsInt(a) /\ IsInt(b) THEN PyInt(a.v - b.v)
    ELSE FSub(ToFloat(a), ToFloat(b))

\* mutant of PyTrueDiv: a zero divisor gives 0.0 instead of an error
PyTrueDiv_unchecked(a, b) ==
    IF IsRaise(a) THEN a ELSE IF IsRaise(b) THEN b
    ELSE IF IsZero(b) THEN IntToFloat(0)
    ELSE FDiv(ToFloat(a), ToFloat(b))

\* a / b: int / int is the correctly rounded quotient as well
PyTrueDiv(a, b) ==
    IF IsRaise(a) THEN a ELSE IF IsRaise(b) THEN b
    ELSE IF IsZero(b)
    THEN Raise("ZeroDivisionError",
               IF IsInt(a) /\ IsInt(b) THEN <<"division by zero">>
               ELSE <<"float division by zero">>)
    ELSE FDiv(ToFloat(a), ToFloat(b))

\* mutant of PyFloorDiv: true division in place of floor division
PyFloorDiv_true(a, b) ==
    IF IsRaise(a) THEN a ELSE IF IsRaise(b) THEN b
    ELSE IF IsZero(b)
    THEN Raise("ZeroDivisionError", <<"float division by zero">>)
    ELSE FDiv(ToFloat(a), ToFloat(b))

\* a // b
PyFloorDiv(a, b) ==
    IF IsRaise(a) THEN a ELSE IF IsRaise(b) THEN b
    ELSE IF IsInt(a) /\ IsInt(b)
    THEN (IF b.v = 0
          THEN Raise("ZeroDivisionError",
                     <<"integer division or modulo by zero">>)
          ELSE PyInt(IF b.v > 0 THEN a.v \div b.v ELSE (0 - a.v) \div (0 - b.v)))
    ELSE IF IsZero(b)
    THEN Raise("ZeroDivisionError", <<"float floor division by zero">>)
    ELSE FFloorDiv(ToFloat(a), ToFloat(b))

\* C pow(a, 2.0).  The C library's pow is accurate to less than one unit
\* in the last place but not correctly rounded: an inexact square comes
\* back as either of the two binary64 next to it, and which one (up) is the
\* library's choice.
FPow2(a, up) == IF FIsZero(a) THEN Canon(0, <<>>, 0)
                ELSE FToward(0, BMul(a.m, a.m), a.e + a.e, up)

\* a ** b for the exponent 2 the program uses
PyPow(a, b, up) ==
    IF IsRaise(a) THEN a ELSE IF IsRaise(b) THEN b
    ELSE CASE b = PyInt(2) ->
              IF IsInt(a) THEN PyInt(a.v * a.v) ELSE FPow2(a, up)

(***************************************************************************)
(* The classes.  An instance is [k |-> "obj", cls, attrs]; a class         *)
(* attribute or method is looked up in the subclass first.                 *)
(***************************************************************************)
Training_LEN_STEP == PyFloat(65, 100)
M_IN_KM == PyInt(1000)
TIME_CONST == PyInt(60)

Running_coeff_calorie_1 == PyInt(18)
Running_coeff_calorie_2 == PyInt(20)

SportsWalking_coeff_calorie_1 == PyFloat(35, 1000)
SportsWalking_coeff_calorie_2 == PyFloat(29, 1000)
SportsWalking_coeff_calorie_3 == PyInt(2)

Swimming_LEN_STEP == PyFloat(138, 100)
Swimming_coeff_calorie_1 == PyFloat(11, 10)
Swimming_coeff_calorie_2 == PyInt(2)

\* mutant of LEN_STEP: Swimming does not override the step length
LEN_STEP_base(self) == Training_LEN_STEP

LEN_STEP(self) == IF self.cls = "Swimming" THEN Swimming_LEN_STEP
                  ELSE Training_LEN_STEP

\* mutant of Fields: Swimming declares count_pool before length_pool
Fields_swapped(cls) ==
    CASE cls = "Training"      -> <<"action", "duration", "weight">>
      [] cls = "Running"       -> <<"action", "duration", "weight">>
      [] cls = "SportsWalking" -> <<"action", "duration", "weight", "height">>
      [] cls = "Swimming"      -> <<"action", "duration", "weight",
                                    "count_pool", "length_pool">>

\* the dataclass fields, in declaration order
Fields(cls) ==
    CASE cls = "Training"      -> <<"action", "duration", "weight">>
      [] cls = "Running"       -> <<"action", "duration", "weight">>
      [] cls = "SportsWalking" -> <<"action", "duration", "weight", "height">>
      [] cls = "Swimming"      -> <<"action", "duration", "weight",
                                    "length_pool", "count_pool">>

\* the call cls(data...): the generated __init__ binds positionally
New(cls, data) ==
    LET f == Fields(cls)
    IN  IF Len(data) # Len(f)
        THEN Raise("TypeError", <<cls, "__init__">>)
        ELSE [k |-> "obj", cls |-> cls,
              attrs |-> [n \in {f[j] : j \in 1..Len(f)} |->
                           data[CHOOSE j \in 1..Len(f) : f[j] = n]]]

get_distance(self) ==
    PyTrueDiv(PyMul(self.attrs.action, LEN_STEP(self)), M_IN_KM)

Training_get_mean_speed(self) ==
    PyTrueDiv(get_distance(self), self.attrs.duration)

\* mutant of Swimming_get_mean_speed: the speed of the base class
Swimming_get_mean_speed_inherited(self) ==
    PyTrueDiv(get_distance(self), self.attrs.duration)

Swimming_get_mean_speed(self) ==
    PyTrueDiv(PyTrueDiv(PyMul(self.attrs.length_pool, self.attrs.count_pool),
                        M_IN_KM),
              self.attrs.duration)

get_mean_speed(self) ==
    IF self.cls = "Swimming" THEN Swimming_get_mean_speed(self)
    ELSE Training_get_mean_speed(self)

Training_get_spent_calories(self) ==
    Raise("NotImplementedError", <<"get_spent_calories">>)

\* mutant of Running_get_spent_calories: hours are not turned into minutes
Running_get_spent_calories_hours(self) ==
    PyMul(PyTrueDiv(PyMul(PySub(PyMul(Running_coeff_calorie_1,
                                      get_mean_speed(self)),
                                Running_coeff_calorie_2),
                          self.attrs.weight),
                    M_IN_KM),
          self.attrs.duration)

\* mutant of Running_get_spent_calories: the subtraction the other way round
Running_get_spent_calories_swapped(self) ==
    PyMul(PyMul(PyTrueDiv(PyMul(PySub(Running_coeff_calorie_2,
                                      PyMul(Running_coeff_calorie_1,
                                            get_mean_speed(self))),
                                self.attrs.weight),
                          M_IN_KM),
                self.attrs.duration),
          TIME_CONST)

Running_get_spent_calories(self) ==
    PyMul(PyMul(PyTrueDiv(PyMul(PySub(PyMul(Running_coeff_calorie_1,
                                            get_mean_speed(self)),
                                      Running_coeff_calorie_2),
                                self.attrs.weight),
                          M_IN_KM),
                self.attrs.duration),
          TIME_CONST)

SportsWalking_get_spent_calories(self, up) ==
    PyMul(PyMul(PyAdd(PyMul(SportsWalking_coeff_calorie_1, self.attrs.weight),
                      PyMul(PyMul(PyFloorDiv(PyPow(get_mean_speed(self),
                                                   SportsWalking_coeff_calorie_3,
                                                   up),
                                             self.attrs.height),
                                  SportsWalking_coeff_calorie_2),
                            self.attrs.weight)),
                TIME_CONST),
          self.attrs.duration)

Swimming_get_spent_calories(self) ==
    PyMul(PyMul(PyAdd(get_mean_speed(self), Swimming_coeff_calorie_1),
                Swimming_coeff_calorie_2),
          self.attrs.weight)

get_spent_calories(self, up) ==
    CASE self.cls = "Running"       -> Running_get_spent_calories(self)
      [] self.cls = "SportsWalking" -> SportsWalking_get_spent_calories(self, up)
      [] self.cls = "Swimming"      -> Swimming_get_spent_calories(self)
      [] OTHER                      -> Training_get_spent_calories(self)

\* InfoMessage(...): the arguments are evaluated left to right, and
\* the first one that raises ends the call
InfoMessage(training_type, duration, distance, speed, calories) ==
    IF IsRaise(distance) THEN distance
    ELSE IF IsRaise(speed) THEN speed
    ELSE IF IsRaise(calories) THEN calories
    ELSE [k |-> "InfoMessage", training_type |-> training_type,
          duration |-> duration, distance |-> distance,
          speed |-> speed, calories |-> calories]

show_training_info(self, up) ==
    InfoMessage(self.cls, self.attrs.duration, get_distance(self),
                get_mean_speed(self), get_spent_calories(self, up))

\* format(v, '.3f'): an int is converted to float first
Format3f(v) == FormatF3(ToFloat(v))

\* The rendered message: the pieces of the template (its Cyrillic text
\* transliterated) and, between them, the substituted fields, a number as
\* the sequence of its characters.
get_message(self) ==
    <<"Tip trenirovki: ", self.training_type,
      "; Dlitelnost: ", Format3f(self.duration),
      " ch.; Distantsiya: ", Format3f(self.distance),
      " km; Sr. skorost: ", Format3f(self.speed),
      " km/ch; Potracheno kkal: ", Format3f(self.calories), ".">>

workout == [SWM |-> "Swimming", RUN |-> "Running", WLK |-> "SportsWalking"]

\* mutant of read_package: an unknown code falls back to Running
read_package_default(workout_type, data) ==
    IF workout_type \notin DOMAIN workout THEN New("Running", data)
    ELSE New(workout[workout_type], data)

read_package(workout_type, data) ==
    IF workout_type \notin DOMAIN workout
    THEN Raise("ValueError",
               <<"Takoy trenirovki - ", workout_type, ", ne naydeno">>)
    ELSE New(workout[workout_type], data)

(***************************************************************************)
(* The driver: for workout_type, data in packages:                         *)
(*                 training = read_package(workout_type, data)             *)
(*                 main(training)                                          *)
(* An exception nobody catches ends the run.                               *)
(***************************************************************************)
VARIABLES packages, idx, pc, training, info, stdout, exc

vars == <<packages, idx, pc, training, info, stdout, exc>>

Ints(s) == [j \in 1..Len(s) |-> PyInt(s[j])]

\* the packages of the program itself
SWM_package == <<"SWM", Ints(<<720, 1, 80, 25, 40>>)>>
RUN_package == <<"RUN", Ints(<<15000, 1, 75>>)>>
WLK_package == <<"WLK", Ints(<<9000, 1, 75, 180>>)>>

\* the lists the driver is run on: the program's packages and three that
\* fail (an unknown code, a zero duration, a missing value), in any order
MaxPackages == 3

SamplePackages ==
    {SWM_package, RUN_package, WLK_package, <<"XYZ", <<>>>>,
     <<"RUN", Ints(<<15000, 0, 75>>)>>, <<"WLK", Ints(<<9000, 1, 75>>)>>}

PackageLists ==
    UNION {[1..n -> SamplePackages] : n \in 0..MaxPackages}

\* the single readings the calculations are checked on
MaxWeightStep == 1

Codes == {"SWM", "RUN", "WLK", "XYZ"}
ActionValues == {PyInt(n) : n \in {0, 49, 91, 720, 9000, 15000, 30000}}
DurationValues == {PyInt(0), PyFloat(0, 1), PyInt(1), PyInt(2), PyFloat(1, 2)}
WeightValues == {PyInt(75 + 5 * j) : j \in 0..MaxWeightStep}
HeightValues == {PyInt(180), PyInt(170)}
LengthPoolValues == {PyInt(25), PyInt(50)}
CountPoolValues == {PyInt(40)}

DataValues ==
    LET three == {<<a, d, w>> : a \in ActionValues, d \in DurationValues,
                                w \in WeightValues}
    IN  {<<>>} \cup three
        \cup {t \o <<h>> : t \in three, h \in HeightValues}
        \cup {t \o <<l, c>> : t \in three, l \in LengthPoolValues,
                              c \in CountPoolValues}

Readings == {<<<<c, d>>>> : c \in Codes, d \in DataValues}

Start(lists) ==
    /\ packages \in lists
    /\ idx = 1
    /\ pc = "for"
    /\ training = None
    /\ info = None
    /\ stdout = <<>>
    /\ exc = None

Init == Start(PackageLists)

InitReading == Start(Readings)

\* mutant of Bound: the exception is swallowed and the program goes on
Bound_swallowed(r, target, next) ==
    /\ pc' = next
    /\ IF IsRaise(r) THEN exc' = r /\ UNCHANGED target
       ELSE target' = r /\ UNCHANGED exc

\* an assignment target := r, or the exception r leaving the program
Bound(r, target, next) ==
    IF IsRaise(r) THEN /\ exc' = r
                       /\ pc' = "raised"
                       /\ UNCHANGED target
    ELSE /\ target' = r
         /\ pc' = next
         /\ UNCHANGED exc

\* training = read_package(workout_type, data)
ReadPackage ==
    /\ pc = "for"
    /\ idx <= Len(packages)
    /\ Bound(read_package(packages[idx][1], packages[idx][2]), training, "main")
    /\ UNCHANGED <<packages, idx, info, stdout>>

\* main: info = training.show_training_info(), whichever way the C
\* library rounds the power
ShowTrainingInfo ==
    /\ pc = "main"
    /\ \E up \in BOOLEAN : Bound(show_training_info(training, up), info, "print")
    /\ UNCHANGED <<packages, idx, training, stdout>>

\* main: print(info.get_message()), and back to the loop (info keeps the
\* message main built last until main builds the next one)
PrintMessage ==
    /\ pc = "print"
    /\ stdout' = Append(stdout, get_message(info))
    /\ idx' = idx + 1
    /\ pc' = "for"
    /\ UNCHANGED <<packages, training, info, exc>>

\* the list is exhausted
Exit ==
    /\ pc = "for"
    /\ idx > Len(packages)
    /\ pc' = "done"
    /\ UNCHANGED <<packages, idx, training, info, stdout, exc>>

Next == ReadPackage \/ ShowTrainingInfo \/ PrintMessage \/ Exit

Spec == Init /\ [][Next]_vars

SpecReading == InitReading /\ [][Next]_vars

(***************************************************************************)
(* The properties.                                                         *)
(***************************************************************************)
KnownCodes == {"SWM", "RUN", "WLK"}

\* the reading being processed in a run on a single reading
Code == packages[1][1]
Data == packages[1][2]

RunLine(kcal) ==
    <<"Tip trenirovki: ", "Running",
      "; Dlitelnost: ", <<"1", ".", "0", "0", "0">>,
      " ch.; Distantsiya: ", <<"9", ".", "7", "5", "0">>,
      " km; Sr. skorost: ", <<"9", ".", "7", "5", "0">>,
      " km/ch; Potracheno kkal: ", kcal, ".">>

\* C1 as stated: the line printed for ('RUN', [15000, 1, 75]) shows duration
\* 1.000, distance 9.750, mean speed 9.750 and calories 700.650.
C1_Original ==
    \A j \in 1..Len(stdout) :
        packages[j] = RUN_package =>
            stdout[j] = RunLine(<<"7", "0", "0", ".", "6", "5", "0">>)

\* C1 amended: the line printed for ('RUN', [15000, 1, 75]) shows duration
\* 1.000, distance 9.750, mean speed 9.750 and calories 699.750.
C1_EndToEnd ==
    \A j \in 1..Len(stdout) :
        packages[j] = RUN_package =>
            stdout[j] = RunLine(<<"6", "9", "9", ".", "7", "5", "0">>)

C1_Witness == \E j \in 1..Len(stdout) : packages[j] = RUN_package

\* C2: read_package on a code other than SWM, RUN, WLK raises the unknown
\* workout error carrying the code, whatever the values list: no instance is
\* built, no arity error is raised, nothing is computed or printed.
C2_UnknownCode ==
    (Code \notin KnownCodes /\ pc # "for") =>
        /\ pc = "raised"
        /\ exc.exc = "ValueError"
        /\ exc.msg = <<"Takoy trenirovki - ", Code, ", ne naydeno">>
        /\ training = None
        /\ info = None
        /\ stdout = <<>>

C2_Witness ==
    /\ pc = "raised"
    /\ Code = "XYZ"
    /\ Len(Data) = 5
    /\ exc.exc = "ValueError"

\* C3: for a known code and a values list of the variant's length,
\* read_package returns an instance of the mapped variant (SWM -> Swimming,
\* RUN -> Running, WLK -> SportsWalking) with the values bound to the fields
\* in declaration order; ('SWM', [720, 1, 80, 25, 40]) gives a Swimming with
\* length_pool = 25 and count_pool = 40.
C3_Expected ==
    CASE Code = "RUN" /\ Len(Data) = 3 ->
            [k |-> "obj", cls |-> "Running",
             attrs |-> [action |-> Data[1], duration |-> Data[2],
                        weight |-> Data[3]]]
      [] Code = "WLK" /\ Len(Data) = 4 ->
            [k |-> "obj", cls |-> "SportsWalking",
             attrs |-> [action |-> Data[1], duration |-> Data[2],
                        weight |-> Data[3], height |-> Data[4]]]
      [] Code = "SWM" /\ Len(Data) = 5 ->
            [k |-> "obj", cls |-> "Swimming",
             attrs |-> [action |-> Data[1], duration |-> Data[2],
                        weight |-> Data[3], length_pool |-> Data[4],
                        count_pool |-> Data[5]]]
      [] OTHER -> None

C3_Binding ==
    /\ pc # "for" /\ idx = 1 => training = C3_Expected
    /\ (pc = "main" /\ packages[1] = SWM_package) =>
           /\ training.cls = "Swimming"
           /\ training.attrs.length_pool = PyInt(25)
           /\ training.attrs.count_pool = PyInt(40)

C3_Witness ==
    /\ pc = "main"
    /\ packages[1] = SWM_package
    /\ training.attrs.count_pool = PyInt(40)

\* a comparison of two numbers
PyLe(a, b) == FCmp(ToFloat(a), ToFloat(b)) <= 0

WithAttr(self, name, v) == [self EXCEPT !.attrs[name] = v]

\* C5: a Swimming's mean speed and calories do not depend on its action
\* count: changing the action count alone changes neither, while the
\* distance may change.
C5_ActionIgnored ==
    (pc = "print" /\ training.cls = "Swimming") =>
        \A a \in ActionValues :
            /\ get_mean_speed(WithAttr(training, "action", a)) = info.speed
            /\ \A up \in BOOLEAN :
                   get_spent_calories(WithAttr(training, "action", a), up)
                       = info.calories

C5_Witness ==
    /\ pc = "print"
    /\ training.cls = "Swimming"
    /\ \E a \in ActionValues :
           get_distance(WithAttr(training, "action", a)) # info.distance

\* C10: with a duration of 0, in every variant, get_mean_speed raises a
\* division-by-zero error, get_spent_calories and show_training_info raise
\* the same error, get_distance still returns a number, and the error leaves
\* the program: no message is built and nothing is printed.
C10_ZeroDuration ==
    (training # None /\ idx = 1 /\ IsZero(training.attrs.duration)) =>
        /\ get_mean_speed(training).k = "raise"
        /\ get_mean_speed(training).exc = "ZeroDivisionError"
        /\ \A up \in BOOLEAN :
               /\ get_spent_calories(training, up) = get_mean_speed(training)
               /\ show_training_info(training, up) = get_mean_speed(training)
        /\ get_distance(training).k = "float"
        /\ pc \in {"main", "raised"}
        /\ pc = "raised" => exc = get_mean_speed(training)
        /\ info = None
        /\ stdout = <<>>

C10_Witness ==
    /\ pc = "raised"
    /\ training # None
    /\ training.cls = "Swimming"
    /\ training.attrs.duration = PyInt(0)
    /\ exc.exc = "ZeroDivisionError"

\* the weights of the model that are at least the weight of the instance
Heavier == {w \in WeightValues : PyLe(training.attrs.weight, w)}

CaloriesAt(w) == get_spent_calories(WithAttr(training, "weight", w), FALSE)

\* C4 as stated: for Running and Swimming, of two instances that differ only
\* in weight the heavier one never has the smaller get_spent_calories().
C4_Original ==
    (pc = "print" /\ training.cls \in {"Running", "Swimming"}) =>
        \A w \in Heavier : PyLe(info.calories, CaloriesAt(w))

\* the factor the weight is multiplied by is not negative
C4_Gain ==
    \/ /\ training.cls = "Running"
       /\ PyLe(PyInt(20), PyMul(PyInt(18), info.speed))
       /\ PyLe(PyInt(0), training.attrs.duration)
    \/ /\ training.cls = "Swimming"
       /\ PyLe(PyInt(0), PyAdd(info.speed, PyFloat(11, 10)))

\* C4 amended: the heavier instance never has the smaller calories for
\* Swimming with mean speed + 1.1 >= 0, and for Running with
\* 18 * mean speed >= 20 and duration >= 0.
C4_Monotonic ==
    (pc = "print" /\ C4_Gain) =>
        \A w \in Heavier : PyLe(info.calories, CaloriesAt(w))

C4_Witness ==
    /\ pc = "print"
    /\ training.cls = "Running"
    /\ C4_Gain
    /\ \E w \in Heavier : ~PyLe(CaloriesAt(w), info.calories)

C6_Step(cls) == IF cls = "Swimming" THEN PyFloat(138, 100) ELSE PyFloat(65, 100)

C6_Scaled == PyMul(info.distance, PyInt(1000))

C6_Product == PyMul(training.attrs.action, C6_Step(training.cls))

FAbs(a) == [a EXCEPT !.s = 0]

C6_Gap == FAbs(FSub(C6_Scaled, C6_Product))

\* C6 as stated: get_distance() * 1000 equals action * LEN_STEP, with the
\* step 0.65 for Running and SportsWalking and 1.38 for Swimming.
C6_Original == pc = "print" => C6_Scaled = C6_Product

\* C6 amended: get_distance() * 1000 and action * LEN_STEP (step 0.65 for
\* Running and SportsWalking, 1.38 for Swimming) differ by at most one
\* rounding step, 2^-52 of the product, and by at most 1e-9.
C6_WithinTolerance ==
    pc = "print" =>
        /\ FCmp(C6_Gap, [FAbs(C6_Product) EXCEPT !.e = @ - 52]) <= 0
        /\ FCmp(C6_Gap, PyFloat(1, 10^9)) <= 0

C6_Witness ==
    /\ pc = "print"
    /\ training.cls = "Swimming"
    /\ C6_Scaled # C6_Product

\* floor(x / h), exactly, for a float x >= 0 and an integer h > 0
C7_Floor(x, h) ==
    IF FIsZero(x) THEN <<>>
    ELSE IF x.e >= 0 THEN BDivMod(BShl(x.m, x.e), BFromInt(h))[1]
    ELSE BDivMod(x.m, BShl(BFromInt(h), 0 - x.e))[1]

C7_Formula(self, speed, up) ==
    PyMul(PyMul(PyAdd(PyMul(PyFloat(35, 1000), self.attrs.weight),
                      PyMul(PyMul(Canon(0, C7_Floor(FPow2(speed, up),
                                                    self.attrs.height.v), 0),
                                  PyFloat(29, 1000)),
                            self.attrs.weight)),
                PyInt(60)),
          self.attrs.duration)

\* C7: SportsWalking.get_spent_calories() is
\* (0.035 * weight + floor(mean_speed^2 / height) * 0.029 * weight) * 60 *
\* duration: the speed is squared, the square is floor-divided by the height,
\* and the floored quotient is what is multiplied by 0.029 * weight.
C7_FloorDivision ==
    (pc = "print" /\ training.cls = "SportsWalking") =>
        \E up \in BOOLEAN :
            info.calories = C7_Formula(training, info.speed, up)

C7_Witness ==
    /\ pc = "print"
    /\ training.cls = "SportsWalking"
    /\ C7_Floor(FPow2(info.speed, FALSE), training.attrs.height.v) # <<>>
    /\ FFloor(info.speed) # info.speed

DigitChars == <<"0", "1", "2", "3", "4", "5", "6", "7", "8", "9">>

IsDigit(c) == \E d \in 1..10 : DigitChars[d] = c

DigitOf(c) == (CHOOSE d \in 1..10 : DigitChars[d] = c) - 1

Unsigned(t) == IF t[1] = "-" THEN Tail(t) ELSE t

\* digits, a period, three digits
C8_Shape(u) ==
    /\ Len(u) >= 5
    /\ u[Len(u) - 3] = "."
    /\ \A j \in 1..Len(u) : j # Len(u) - 3 => IsDigit(u[j])

\* the number of thousandths u denotes
RECURSIVE C8_Thousandths(_, _, _)
C8_Thousandths(u, j, acc) ==
    IF j > Len(u) THEN acc
    ELSE IF u[j] = "." THEN C8_Thousandths(u, j + 1, acc)
    ELSE C8_Thousandths(u, j + 1, BMulSmallC(acc, 10, DigitOf(u[j])))

BDist(a, b) == IF BCmp(a, b) >= 0 THEN BSub(a, b) ELSE BSub(b, a)

\* n thousandths are within half a thousandth of |x|
C8_Nearest(x, n) ==
    IF x.e >= 0 THEN n = BShl(BMulSmall(x.m, 1000), x.e)
    ELSE BCmp(BShl(BDist(BMulSmall(x.m, 1000), BShl(n, 0 - x.e)), 1),
              BShl(<<1>>, 0 - x.e)) <= 0

C8_Field(v, t) ==
    /\ (t[1] = "-") = (ToFloat(v).s = 1)
    /\ C8_Shape(Unsigned(t))
    /\ C8_Nearest(ToFloat(v), C8_Thousandths(Unsigned(t), 1, <<>>))

C8_Line == stdout[Len(stdout)]

\* C8: the printed message holds, in this order, the label, the duration,
\* the distance, the mean speed and the calories, each number with exactly
\* three digits after a period (trailing zeros kept) and equal to the value
\* rounded to the nearest thousandth.
C8_Rendering ==
    (pc = "for" /\ stdout # <<>>) =>
        /\ Len(C8_Line) = 11
        /\ C8_Line[1] = "Tip trenirovki: "
        /\ C8_Line[2] = info.training_type
        /\ C8_Line[3] = "; Dlitelnost: "
        /\ C8_Field(info.duration, C8_Line[4])
        /\ C8_Line[5] = " ch.; Distantsiya: "
        /\ C8_Field(info.distance, C8_Line[6])
        /\ C8_Line[7] = " km; Sr. skorost: "
        /\ C8_Field(info.speed, C8_Line[8])
        /\ C8_Line[9] = " km/ch; Potracheno kkal: "
        /\ C8_Field(info.calories, C8_Line[10])
        /\ C8_Line[11] = "."

C8_Witness ==
    /\ pc = "for"
    /\ stdout # <<>>
    /\ C8_Line[4] = <<"1", ".", "0", "0", "0">>
    /\ C8_Line[6] = <<"0", ".", "9", "9", "4">>

\* line is what the driver prints for pkg
C9_Rendered(pkg, line) ==
    /\ ~IsRaise(read_package(pkg[1], pkg[2]))
    /\ \E up \in BOOLEAN :
           /\ ~IsRaise(show_training_info(read_package(pkg[1], pkg[2]), up))
           /\ line = get_message(show_training_info(
                                     read_package(pkg[1], pkg[2]), up))

\* e is the error pkg fails with
C9_Fails(pkg, e) ==
    /\ IsRaise(e)
    /\ IF IsRaise(read_package(pkg[1], pkg[2]))
       THEN e = read_package(pkg[1], pkg[2])
       ELSE \E up \in BOOLEAN :
                e = show_training_info(read_package(pkg[1], pkg[2]), up)

C9_State ==
    /\ pc \in {"for", "main", "print", "done", "raised"}
    /\ idx <= Len(packages) + 1
    /\ Len(stdout) = idx - 1
    /\ \A j \in 1..Len(stdout) : C9_Rendered(packages[j], stdout[j])
    /\ pc = "done" => Len(stdout) = Len(packages)
    /\ exc # None <=> pc = "raised"
    /\ pc = "raised" => /\ idx <= Len(packages)
                        /\ C9_Fails(packages[idx], exc)

C9_Step ==
    /\ pc \notin {"done", "raised"}
    /\ packages' = packages
    /\ idx' \in {idx, idx + 1}
    /\ Len(stdout') \in {Len(stdout), Len(stdout) + 1}
    /\ SubSeq(stdout', 1, Len(stdout)) = stdout

\* C9: the pairs are processed in input order, one line per pair: the output
\* is always the messages of the pairs before the current one, in order; at
\* the end there is one line per pair; a pair that fails (unknown code,
\* arity, division by zero) ends the run with its error, with no line for it
\* or for any later pair, no retry and no skip, the earlier lines standing.
C9_InOrder == []C9_State /\ [][C9_Step]_vars

C9_Witness ==
    /\ pc = "raised"
    /\ Len(stdout) >= 1
    /\ idx < Len(packages)

====
